---- MODULE Spec2Model ----
(***************************************************************************)
(* Model of Topname::EnumString<E, N> (include/Topname/Topname.hpp): the   *)
(* pair table `mappings`, the open-addressing `hash_table` built from it   *)
(* by the constructor, and the const query methods.                        *)
(*                                                                         *)
(* Strings are sequences of character codes (ASCII, 0..127).  A uint32_t   *)
(* is kept at its width as a pair <<hi, lo>> of 16-bit halves, so that     *)
(* the djb2 hash wraps modulo 2^32 exactly as the code's does.             *)
(***************************************************************************)
EXTENDS Integers, Sequences, FiniteSets

VARIABLES pc, N, args, mappings, hash_table, probes, last

vars == <<pc, N, args, mappings, hash_table, probes, last>>

(***************************************************************************)
(* Bounds of the model.                                                    *)
(***************************************************************************)
\* largest declared size N / largest number of tuples handed to the constructor
MaxN == 2
\* enum values are 0..MaxEnum (the underlying values of the enumerators)
MaxEnum == 1

Values == 0..MaxEnum

(***************************************************************************)
(* Strings used as labels and as queries.                                  *)
(***************************************************************************)
s_az     == <<97, 122>>                      \* "az"
s_bY     == <<98, 89>>                       \* "bY"      hash("bY") = hash("az")
s_Az     == <<65, 122>>                      \* "Az"
s_AZ     == <<65, 90>>                       \* "AZ"
s_BY     == <<66, 89>>                       \* "BY"
s_by     == <<98, 121>>                      \* "by"
s_hLIDPJ == <<104, 76, 73, 68, 80, 74>>      \* "hLIDPJ"  hash("hLIDPJ") = 0
s_HLIDPJ == <<72, 76, 73, 68, 80, 74>>       \* "HLIDPJ"
s_hlidpj == <<104, 108, 105, 100, 112, 106>> \* "hlidpj"
s_no     == <<110, 111>>                     \* "no"
s_empty  == <<>>                             \* ""

Labels == {s_az, s_bY, s_Az, s_hLIDPJ}

Queries == Labels \cup {s_AZ, s_BY, s_by, s_HLIDPJ, s_hlidpj, s_no, s_empty}

Entries == [enum_val : Values, string_val : Labels]

SeqsUpTo(S, n) == UNION {[1..k -> S] : k \in 0..n}

(***************************************************************************)
(* uint32_t arithmetic on <<hi, lo>> halves.                               *)
(***************************************************************************)
Half == 65536

U32(n) == <<(n \div Half) % Half, n % Half>>

Zero == U32(0)

\* hash = ((hash << 5) + hash) + ch, in uint32_t
HashStep(h, ch) ==
    LET lo == h[2] * 33 + ch
    IN  <<(h[1] * 33 + lo \div Half) % Half, lo % Half>>

RECURSIVE hash_from(_, _, _)
hash_from(h, str, i) ==
    IF i > Len(str) THEN h ELSE hash_from(HashStep(h, str[i]), str, i + 1)

hash(str) == hash_from(U32(5381), str, 1)

\* x % m for a uint32_t x and a small positive m
U32Mod(x, m) == ((x[1] % m) * (Half % m) + x[2]) % m

\* variant: as many slots as entries
HASH_TABLE_SIZE_N(n) == n

HASH_TABLE_SIZE(n) == n * 2

(***************************************************************************)
(* case_insensitive_equal: std::ranges::equal under std::tolower.          *)
(***************************************************************************)
tolower(c) == IF c >= 65 /\ c <= 90 THEN c + 32 ELSE c

\* variant: compares only the common prefix (three-iterator std::equal)
case_insensitive_equal_prefix(a, b) ==
    \A i \in 1..(IF Len(a) < Len(b) THEN Len(a) ELSE Len(b)) : tolower(a[i]) = tolower(b[i])

case_insensitive_equal(a, b) ==
    /\ Len(a) = Len(b)
    /\ \A i \in 1..Len(a) : tolower(a[i]) = tolower(b[i])

(***************************************************************************)
(* Construction.                                                           *)
(***************************************************************************)
\* a value-initialised EnumStringPair / hash slot
EnumStringPair0 == [enum_val |-> 0, string_val |-> s_empty]

EmptySlot == [first |-> Zero, second |-> 0]

\* mappings{{args...}}: aggregate initialisation of std::array<EnumStringPair, n>;
\* elements without an initialiser are value-initialised
InitMappings(n, a) ==
    [i \in 1..n |-> IF i <= Len(a) THEN a[i] ELSE EnumStringPair0]

\* while (hash_table[h].first != 0) h = (h + 1) % HASH_TABLE_SIZE;
\* k is the number of slots examined so far.  The table does not change while
\* the loop runs, so once all `size` slots were examined and none was empty the
\* loop is back where it started and never exits: done = FALSE.
RECURSIVE probe_free(_, _, _, _)
probe_free(ht, h, size, k) ==
    IF k >= size THEN [slot |-> h, examined |-> k, done |-> FALSE]
    ELSE IF ht[h].first # Zero THEN probe_free(ht, (h + 1) % size, size, k + 1)
    ELSE [slot |-> h, examined |-> k + 1, done |-> TRUE]

\* one iteration of build_hash_table's loop on the build state b:
\* b.ht the table, b.probes the slots examined by each insertion so far,
\* b.hung whether an insertion's probe loop failed to exit
insert(b, pair, size) ==
    LET p == probe_free(b.ht, U32Mod(hash(pair.string_val), size), size, 0)
    IN  IF b.hung THEN b
        ELSE IF ~p.done
             THEN [b EXCEPT !.probes = Append(@, p.examined), !.hung = TRUE]
             ELSE [b EXCEPT !.ht[p.slot] = [first  |-> hash(pair.string_val),
                                            second |-> pair.enum_val],
                            !.probes = Append(@, p.examined)]

RECURSIVE build_from(_, _, _, _)
build_from(b, m, i, size) ==
    IF i > Len(m) THEN b ELSE build_from(insert(b, m[i], size), m, i + 1, size)

\* variant: inserts the entries from the last to the first
build_reversed(m) ==
    LET size == HASH_TABLE_SIZE(Len(m))
    IN  build_from([ht |-> [h \in 0..(size - 1) |-> EmptySlot], probes |-> <<>>, hung |-> FALSE],
                   [i \in 1..Len(m) |-> m[Len(m) + 1 - i]], 1, size)

build(m) ==
    LET size == HASH_TABLE_SIZE(Len(m))
    IN  build_from([ht |-> [h \in 0..(size - 1) |-> EmptySlot], probes |-> <<>>, hung |-> FALSE],
                   m, 1, size)

build_hash_table(m) == build(m).ht

(***************************************************************************)
(* Outcomes of a call.                                                     *)
(***************************************************************************)
NoCall ==
    [op |-> "none", qstr |-> s_empty, qval |-> 0, kind |-> "none", code |-> "",
     enum |-> 0, str |-> s_empty, flag |-> FALSE, enums |-> <<>>, strs |-> <<>>,
     examined |-> 0]

Call(op, qstr, qval) == [NoCall EXCEPT !.op = op, !.qstr = qstr, !.qval = qval]

\* outcome of a function returning E / std::string_view, or throwing
\* examined: the number of hash slots the call looked at
RetEnum(v)  == [kind |-> "ok", code |-> "", enum |-> v, str |-> s_empty, examined |-> 0]
RetStr(s)   == [kind |-> "ok", code |-> "", enum |-> 0, str |-> s, examined |-> 0]
Throw(c)    == [kind |-> "throw", code |-> c, enum |-> 0, str |-> s_empty, examined |-> 0]
Crash       == [kind |-> "crash", code |-> "", enum |-> 0, str |-> s_empty, examined |-> 0]
\* the call never returns
Hang        == [kind |-> "hang", code |-> "", enum |-> 0, str |-> s_empty, examined |-> 0]

Examined(r, k) == [r EXCEPT !.examined = k]

With(call, r) ==
    [call EXCEPT !.kind = r.kind, !.code = r.code, !.enum = r.enum, !.str = r.str,
                 !.examined = r.examined]

(***************************************************************************)
(* Queries.                                                                *)
(***************************************************************************)
\* k is the number of slots examined so far; as in probe_free, a loop that has
\* examined all `size` slots without leaving never leaves
RECURSIVE to_enum_probe(_, _, _, _, _)
to_enum_probe(ht, h, hv, size, k) ==
    IF k >= size THEN Examined(Hang, k)
    ELSE IF ht[h].first # Zero
    THEN IF ht[h].first = hv
         THEN Examined(RetEnum(ht[h].second), k + 1)
         ELSE to_enum_probe(ht, (h + 1) % size, hv, size, k + 1)
    ELSE Examined(Throw("InvalidStringValue"), k + 1)

\* defined for a table of at least one slot; hash(value) % 0 is undefined
to_enum(ht, value, size) ==
    to_enum_probe(ht, U32Mod(hash(value), size), hash(value), size, 0)

RECURSIVE first_true(_, _)
first_true(hits, i) ==
    IF i > Len(hits) THEN i
    ELSE IF hits[i] THEN i ELSE first_true(hits, i + 1)

\* std::ranges::find_if over the predicate's values on the elements: index of
\* the first element satisfying it, Len(hits) + 1 for end()
find_if(hits) == first_true(hits, 1)

to_enum_insensitive(m, value) ==
    LET it == find_if([i \in 1..Len(m) |-> case_insensitive_equal(m[i].string_val, value)])
    IN  IF it = Len(m) + 1 THEN Throw("InvalidStringValue") ELSE RetEnum(m[it].enum_val)

\* variant: returns the last matching entry's label
to_string_last(m, value) ==
    LET S == {i \in 1..Len(m) : m[i].enum_val = value}
    IN  IF S = {} THEN Throw("InvalidEnumValue")
        ELSE RetStr(m[CHOOSE i \in S : \A j \in S : j <= i].string_val)

\* variant: signals the failure with the OutOfRange code
to_string_out_of_range(m, value) ==
    LET it == find_if([i \in 1..Len(m) |-> m[i].enum_val = value])
    IN  IF it = Len(m) + 1 THEN Throw("OutOfRange") ELSE RetStr(m[it].string_val)

to_string(m, value) ==
    LET it == find_if([i \in 1..Len(m) |-> m[i].enum_val = value])
    IN  IF it = Len(m) + 1 THEN Throw("InvalidEnumValue") ELSE RetStr(m[it].string_val)

get_enum_all(m) == [i \in 1..Len(m) |-> m[i].enum_val]

\* the sequence of arguments the visitor is invoked with
for_each_enum(m) == [i \in 1..Len(m) |-> m[i].enum_val]

for_each_string(m) == [i \in 1..Len(m) |-> m[i].string_val]

RECURSIVE any_equal(_, _, _)
any_equal(visited, target, i) ==
    IF i > Len(visited) THEN FALSE
    ELSE IF visited[i] = target THEN TRUE ELSE any_equal(visited, target, i + 1)

contains_enum(m, target) == any_equal(for_each_enum(m), target, 1)

contains_string(m, target) == any_equal(for_each_string(m), target, 1)

(***************************************************************************)
(* The state machine.                                                      *)
(***************************************************************************)
Init ==
    /\ pc = "start"
    /\ N \in 0..MaxN
    /\ args \in SeqsUpTo(Entries, MaxN)
    /\ mappings = <<>>
    /\ hash_table = <<>>
    /\ probes = <<>>
    /\ last = NoCall

\* EnumString<E, N>(args...): more initialisers than elements is ill-formed
\* (no program, no instance); otherwise the array is filled and the index built
Construct ==
    /\ pc = "start"
    /\ IF Len(args) > N
       THEN /\ pc' = "illformed"
            /\ UNCHANGED <<mappings, hash_table, probes>>
       ELSE /\ pc' = IF build(InitMappings(N, args)).hung THEN "hung" ELSE "built"
            /\ mappings' = InitMappings(N, args)
            /\ hash_table' = build_hash_table(InitMappings(N, args))
            /\ probes' = build(InitMappings(N, args)).probes
    /\ UNCHANGED <<N, args, last>>

\* variant: a lookup that resets the first slot of the index
ToEnumWrite(value) ==
    /\ pc = "built"
    /\ N > 0
    /\ last' = With(Call("to_enum", value, 0), to_enum(hash_table, value, HASH_TABLE_SIZE(N)))
    /\ hash_table' = [hash_table EXCEPT ![0] = EmptySlot]
    /\ UNCHANGED <<pc, N, args, mappings, probes>>

\* to_enum on a table with N = 0 evaluates hash(value) % 0: undefined behaviour.
\* The build either traps (SIGFPE), or goes on to read outside the empty array
\* and throws or returns whatever it finds.
ToEnum(value) ==
    /\ pc = "built"
    /\ IF N = 0
       THEN /\ \/ last' = With(Call("to_enum", value, 0), Crash)
               \/ \E r \in {Throw("InvalidStringValue")} \cup {RetEnum(v) : v \in Values} :
                      last' = With(Call("to_enum", value, 0), r)
            /\ pc' = IF last'.kind = "crash" THEN "crashed" ELSE pc
       ELSE /\ last' = With(Call("to_enum", value, 0),
                            to_enum(hash_table, value, HASH_TABLE_SIZE(N)))
            /\ pc' = IF last'.kind = "hang" THEN "hung" ELSE pc
    /\ UNCHANGED <<N, args, mappings, hash_table, probes>>

ToEnumInsensitive(value) ==
    /\ pc = "built"
    /\ last' = With(Call("to_enum_insensitive", value, 0), to_enum_insensitive(mappings, value))
    /\ UNCHANGED <<pc, N, args, mappings, hash_table, probes>>

ToString(value) ==
    /\ pc = "built"
    /\ last' = With(Call("to_string", s_empty, value), to_string(mappings, value))
    /\ UNCHANGED <<pc, N, args, mappings, hash_table, probes>>

GetEnumAll ==
    /\ pc = "built"
    /\ last' = [Call("get_enum_all", s_empty, 0) EXCEPT !.kind = "ok", !.enums = get_enum_all(mappings)]
    /\ UNCHANGED <<pc, N, args, mappings, hash_table, probes>>

ContainsEnum(target) ==
    /\ pc = "built"
    /\ last' = [Call("contains_enum", s_empty, target) EXCEPT
                    !.kind = "ok", !.flag = contains_enum(mappings, target)]
    /\ UNCHANGED <<pc, N, args, mappings, hash_table, probes>>

ContainsString(target) ==
    /\ pc = "built"
    /\ last' = [Call("contains_string", target, 0) EXCEPT
                    !.kind = "ok", !.flag = contains_string(mappings, target)]
    /\ UNCHANGED <<pc, N, args, mappings, hash_table, probes>>

ForEachEnum ==
    /\ pc = "built"
    /\ last' = [Call("for_each_enum", s_empty, 0) EXCEPT !.kind = "ok", !.enums = for_each_enum(mappings)]
    /\ UNCHANGED <<pc, N, args, mappings, hash_table, probes>>

ForEachString ==
    /\ pc = "built"
    /\ last' = [Call("for_each_string", s_empty, 0) EXCEPT !.kind = "ok", !.strs = for_each_string(mappings)]
    /\ UNCHANGED <<pc, N, args, mappings, hash_table, probes>>

ForEachPair ==
    /\ pc = "built"
    /\ last' = [Call("for_each_pair", s_empty, 0) EXCEPT
                    !.kind = "ok", !.enums = for_each_enum(mappings), !.strs = for_each_string(mappings)]
    /\ UNCHANGED <<pc, N, args, mappings, hash_table, probes>>

Next ==
    \/ Construct
    \/ \E value \in Queries : ToEnum(value)
    \/ \E value \in Queries : ToEnumInsensitive(value)
    \/ \E value \in Values : ToString(value)
    \/ GetEnumAll
    \/ \E target \in Values : ContainsEnum(target)
    \/ \E target \in Queries : ContainsString(target)
    \/ ForEachEnum
    \/ ForEachString
    \/ ForEachPair

Spec == Init /\ [][Next]_vars

\* the tables the constructor's contract admits: exactly N >= 1 tuples supplied
InitWellFormed == Init /\ N >= 1 /\ Len(args) = N

SpecWellFormed == InitWellFormed /\ [][Next]_vars

(***************************************************************************)
(* Properties.                                                             *)
(***************************************************************************)
Built == pc \in {"built", "crashed"}

Idx == 1..Len(mappings)

Min(S) == CHOOSE x \in S : \A y \in S : x <= y

UniqueLabel(i) ==
    \A j \in Idx \ {i} : mappings[j].string_val # mappings[i].string_val

\* ASCII case folding of a whole string, as the specification's upper(l) / lower(l)
ToLowerStr(s) == [i \in 1..Len(s) |-> IF s[i] \in 65..90 THEN s[i] + 32 ELSE s[i]]

ToUpperStr(s) == [i \in 1..Len(s) |-> IF s[i] \in 97..122 THEN s[i] - 32 ELSE s[i]]

FoldEq(a, b) == ToLowerStr(a) = ToLowerStr(b)

\* C1: round trip label -> value. For every entry (v, l) whose label l no
\* other entry carries, to_enum(l) returns v.
C1_RoundTripLabelToValue ==
    last.op = "to_enum" =>
        \A i \in Idx :
            (mappings[i].string_val = last.qstr /\ UniqueLabel(i)) =>
                (last.kind = "ok" /\ last.enum = mappings[i].enum_val)

\* C2 as stated: for every entry (v, l) whose label l no other entry carries,
\* to_string(v) returns l.
C2_RoundTripValueToLabel_Original ==
    last.op = "to_string" =>
        \A i \in Idx :
            (mappings[i].enum_val = last.qval /\ UniqueLabel(i)) =>
                (last.kind = "ok" /\ last.str = mappings[i].string_val)

\* C2 amended: for every entry (v, l) whose label l no other entry carries and
\* whose value v no earlier entry carries, to_string(v) returns l.
C2_RoundTripValueToLabel ==
    last.op = "to_string" =>
        \A i \in Idx :
            ( /\ mappings[i].enum_val = last.qval
              /\ UniqueLabel(i)
              /\ \A j \in 1..(i - 1) : mappings[j].enum_val # last.qval ) =>
                (last.kind = "ok" /\ last.str = mappings[i].string_val)

\* a to_string(v) call answered from the first of two entries that carry v
\* under different labels
C2_Witness ==
    /\ last.op = "to_string"
    /\ Len(mappings) >= 2
    /\ mappings[1].enum_val = last.qval
    /\ mappings[2].enum_val = last.qval
    /\ UniqueLabel(1)
    /\ last.kind = "ok"
    /\ last.str = mappings[1].string_val

\* C3: absence. A query equal to no entry's label makes to_enum throw
\* EnumStringException(InvalidStringValue); it never returns a value.
C3_Absence ==
    (last.op = "to_enum" /\ \A i \in Idx : mappings[i].string_val # last.qstr) =>
        (last.kind = "throw" /\ last.code = "InvalidStringValue")

\* C4: to_string(v) returns the label of the entry of smallest index whose
\* value is v, and throws InvalidEnumValue exactly when no entry has value v.
C4_ToStringFirstMatch ==
    last.op = "to_string" =>
        LET S == {i \in Idx : mappings[i].enum_val = last.qval}
        IN  IF S = {}
            THEN last.kind = "throw" /\ last.code = "InvalidEnumValue"
            ELSE last.kind = "ok" /\ last.str = mappings[Min(S)].string_val

\* a to_string(v) call that failed on a table whose entries share one value
\* other than v
C4_Witness ==
    /\ last.op = "to_string"
    /\ Len(mappings) >= 2
    /\ mappings[1].enum_val = mappings[2].enum_val
    /\ \A i \in Idx : mappings[i].enum_val # last.qval
    /\ last.kind = "throw"
    /\ last.code = "InvalidEnumValue"

\* C5: to_enum_insensitive(query) returns the value of the entry of smallest
\* index whose label equals query under ASCII case folding, and throws
\* InvalidStringValue exactly when no label matches that way.
C5_InsensitiveFirstMatch ==
    last.op = "to_enum_insensitive" =>
        LET S == {i \in Idx : FoldEq(mappings[i].string_val, last.qstr)}
        IN  IF S = {}
            THEN last.kind = "throw" /\ last.code = "InvalidStringValue"
            ELSE last.kind = "ok" /\ last.enum = mappings[Min(S)].enum_val

\* a case-insensitive lookup that two entries of different values match, with
\* a query spelled differently from both labels, answered from the first
C5_Witness ==
    /\ last.op = "to_enum_insensitive"
    /\ Len(mappings) >= 2
    /\ mappings[1].string_val # last.qstr
    /\ mappings[2].string_val # last.qstr
    /\ FoldEq(mappings[1].string_val, last.qstr)
    /\ FoldEq(mappings[2].string_val, last.qstr)
    /\ mappings[1].enum_val # mappings[2].enum_val
    /\ last.kind = "ok"
    /\ last.enum = mappings[1].enum_val

\* C6: case-insensitivity agreement. For every entry label l, what to_enum(l)
\* returned is a value, and to_enum_insensitive(upper(l)) and
\* to_enum_insensitive(lower(l)) both return that same value.
C6_CaseInsensitivityAgreement ==
    (last.op = "to_enum" /\ \E i \in Idx : mappings[i].string_val = last.qstr) =>
        /\ last.kind = "ok"
        /\ to_enum_insensitive(mappings, ToUpperStr(last.qstr)) = RetEnum(last.enum)
        /\ to_enum_insensitive(mappings, ToLowerStr(last.qstr)) = RetEnum(last.enum)

\* C7: a table of zero entries is constructed, and on it to_enum and
\* to_enum_insensitive throw InvalidStringValue and to_string throws
\* InvalidEnumValue, for every argument.
C7_EmptyTableLookupsFail ==
    (N = 0 /\ Len(args) = 0 /\ pc # "start") =>
        /\ Built
        /\ last.op \in {"to_enum", "to_enum_insensitive"} =>
               (last.kind = "throw" /\ last.code = "InvalidStringValue")
        /\ last.op = "to_string" =>
               (last.kind = "throw" /\ last.code = "InvalidEnumValue")

\* C8: constructing with a number of tuples different from the declared size N
\* produces no instance, so no query is ever answered from such a table.
C8_MalformedConstruction ==
    Len(args) # N => (~Built /\ last.op = "none")

\* C9: once the table is constructed, no step changes mappings, hash_table or
\* the size N.
C9_QueriesDoNotMutate ==
    [][Built => (mappings' = mappings /\ hash_table' = hash_table /\ N' = N)]_vars

\* a failed hash lookup on a table that holds entries, with the pair table and
\* the index as the constructor left them
C9_Witness ==
    /\ last.op = "to_enum"
    /\ last.kind = "throw"
    /\ N = MaxN
    /\ mappings = InitMappings(N, args)
    /\ hash_table = build_hash_table(mappings)
    /\ \E h \in DOMAIN hash_table : hash_table[h].first # Zero

\* C10: after construction exactly N of the 2N slots are populated, and every
\* entry holds a slot of its own with its hash and value.
C10_Occupancy ==
    pc = "built" =>
        /\ DOMAIN hash_table = 0..(2 * N - 1)
        /\ Cardinality({h \in DOMAIN hash_table : hash_table[h].first # Zero}) = N
        /\ \E f \in [Idx -> DOMAIN hash_table] :
               /\ \A i, j \in Idx : i # j => f[i] # f[j]
               /\ \A i \in Idx :
                      hash_table[f[i]] = [first  |-> hash(mappings[i].string_val),
                                          second |-> mappings[i].enum_val]

\* C11: probe termination. On every table with N >= 1 the probe loop of each
\* insertion of build_hash_table exits, having examined at most 2N slots, and
\* so does the probe loop of to_enum for every query string.
C11_ProbeTermination ==
    (N >= 1 /\ pc \notin {"start", "illformed"}) =>
        /\ pc # "hung"
        /\ Len(probes) = N
        /\ \A i \in 1..Len(probes) : probes[i] >= 1 /\ probes[i] <= 2 * N
        /\ last.op = "to_enum" =>
               (last.kind \in {"ok", "throw"} /\ last.examined >= 1 /\ last.examined <= 2 * N)

\* an insertion that had to step past an occupied slot, followed by a lookup
\* that stepped past occupied slots before it reached an empty one
C11_Witness ==
    /\ pc = "built"
    /\ N >= 2
    /\ \E i \in 1..Len(probes) : probes[i] >= 2
    /\ last.op = "to_enum"
    /\ last.kind = "throw"
    /\ last.examined >= 2

\* distinct labels of the table have distinct 32-bit hashes, none of them 0
DistinctNonZeroHashes ==
    /\ \A i \in Idx : hash(mappings[i].string_val) # Zero
    /\ \A i, j \in Idx :
           mappings[i].string_val # mappings[j].string_val =>
               hash(mappings[i].string_val) # hash(mappings[j].string_val)

\* C12: first match under duplicate labels. On a table whose distinct labels
\* have distinct non-zero hashes, to_enum(l) for a label l of the table returns
\* the value of the entry of smallest index whose label is l.
C12_ToEnumFirstMatch ==
    ( /\ last.op = "to_enum"
      /\ DistinctNonZeroHashes
      /\ \E i \in Idx : mappings[i].string_val = last.qstr ) =>
        /\ last.kind = "ok"
        /\ last.enum = mappings[Min({i \in Idx : mappings[i].string_val = last.qstr})].enum_val

\* a lookup of a label that two entries carry with different values, answered
\* with the first entry's value
C12_Witness ==
    /\ last.op = "to_enum"
    /\ DistinctNonZeroHashes
    /\ \E i, j \in Idx :
           /\ i < j
           /\ mappings[i].string_val = last.qstr
           /\ mappings[j].string_val = last.qstr
           /\ mappings[i].enum_val # mappings[j].enum_val
           /\ \A k \in 1..(i - 1) : mappings[k].string_val # last.qstr
           /\ last.kind = "ok"
           /\ last.enum = mappings[i].enum_val

====
